---- MODULE Spec2Model ----
(***************************************************************************)
(* Collaborative fill-in-the-blanks page (src/fill_in_the_blank.js).       *)
(*                                                                         *)
(* The parts of the page are modelled as specifications over one set of    *)
(* variables:                                                              *)
(*   BuildSpec    buildWikipediaNounPool with its fetches                  *)
(*   DrawSpec     renderAllNounRows / pickUniqueRandom                     *)
(*   SetupSpec    setup's promise chain: render the pool or show failure   *)
(*   ExtractSpec  extractCandidateNounsFromText on sample texts            *)
(*   SaveSpec     onSave / downloadText                                    *)
(*   Spec         the field sync engine: addBlank's debounced input        *)
(*                handler, writeBlank, applyRemote, onReset, and the store *)
(*   LocalSpec    the page without a store                                 *)
(* A text is a sequence of one-character strings; a token is a text.       *)
(***************************************************************************)
EXTENDS Integers, Sequences, FiniteSets, TLC

(* ------------------------------------------------------------------ *)
(* Bounds of the model.  The page's own sizes (30 lines, 3 blanks, 10  *)
(* nouns per line, 60 requests, batches of 5, a cap of 300 with a trim *)
(* of 120) are scaled down; the code is the same for every size.       *)
(* ------------------------------------------------------------------ *)
\* const MAX_REQUESTS = 60 (line 41), scaled
MAX_REQUESTS == 4
\* const BATCH_SIZE = 5 (line 42), scaled
BATCH_SIZE == 3
\* largest targetSize handed to buildWikipediaNounPool
MaxTarget == 4
\* const LINES = 30 (line 10), scaled
LINES == 3
\* const NOUNS_PER_LINE = 10 (line 12), scaled
NOUNS_PER_LINE == 2
\* the cap 300 of the rolling exclusion set (line 202), scaled
EXCLUDE_CAP == 3
\* the 120 entries dropped when the cap is passed (line 203), scaled; as in
\* the source it is below the cap and not below NOUNS_PER_LINE
EXCLUDE_TRIM == 2
\* largest pool handed to renderAllNounRows
MaxPool == 4
\* the 30 of tries < count * 30 (line 189), scaled
TRIES_PER_TOKEN == 4
\* const BLANKS_PER_LINE = 3 (line 11), scaled
BLANKS_PER_LINE == 1
\* number of things the user and the other clients do in one run
MaxEvents == 3
\* number of clicks on the save button in one run
MaxSaves == 2
\* number of pieces a sample text is put together from
MaxPieces == 3
\* number of calls of extractCandidateNounsFromText on one text
MaxCalls == 2

Range(s) == {s[i] : i \in 1..Len(s)}
Min(a, b) == IF a < b THEN a ELSE b

(* ------------------------------------------------------------------ *)
(* extractCandidateNounsFromText (lines 144-160)                       *)
(* ------------------------------------------------------------------ *)
Letters == <<"a","b","c","d","e","f","g","h","i","j","k","l","m","n","o","p","q","r","s","t","u","v","w","x","y","z">>
Uppers == <<"A","B","C","D","E","F","G","H","I","J","K","L","M","N","O","P","Q","R","S","T","U","V","W","X","Y","Z">>
Whitespace == {" ", "\n", "\t"}

STOPWORDS == {
  <<"t","h","e">>, <<"a">>, <<"a","n">>, <<"a","n","d">>, <<"o","r">>, <<"b","u","t">>,
  <<"i","f">>, <<"t","h","e","n">>, <<"e","l","s","e">>, <<"w","h","e","n">>,
  <<"w","h","i","l","e">>, <<"f","o","r">>, <<"t","o">>, <<"o","f">>, <<"i","n">>, <<"o","n">>,
  <<"a","t">>, <<"b","y">>, <<"w","i","t","h">>, <<"f","r","o","m">>, <<"a","s">>,
  <<"t","h","a","t">>, <<"t","h","i","s">>, <<"t","h","e","s","e">>, <<"t","h","o","s","e">>,
  <<"i","t">>, <<"i","t","s">>, <<"i","s">>, <<"a","r","e">>, <<"w","a","s">>, <<"w","e","r","e">>,
  <<"b","e">>, <<"b","e","e","n">>, <<"b","e","i","n","g">>, <<"h","a","s">>, <<"h","a","v","e">>,
  <<"h","a","d">>, <<"d","o">>, <<"d","o","e","s">>, <<"d","i","d">>, <<"c","a","n">>,
  <<"c","o","u","l","d">>, <<"m","a","y">>, <<"m","i","g","h","t">>, <<"m","u","s","t">>,
  <<"s","h","a","l","l">>, <<"s","h","o","u","l","d">>, <<"w","i","l","l">>,
  <<"w","o","u","l","d">>, <<"i">>, <<"y","o","u">>, <<"h","e">>, <<"s","h","e">>,
  <<"t","h","e","y">>, <<"w","e">>, <<"m","e">>, <<"h","i","m">>, <<"h","e","r">>,
  <<"t","h","e","m">>, <<"u","s">>, <<"m","y">>, <<"y","o","u","r">>, <<"h","i","s">>,
  <<"t","h","e","i","r">>, <<"o","u","r">>, <<"m","i","n","e">>, <<"y","o","u","r","s">>,
  <<"h","e","r","s">>, <<"t","h","e","i","r","s">>, <<"o","u","r","s">>, <<"a","l","s","o">>,
  <<"s","u","c","h">>, <<"o","t","h","e","r">>, <<"m","o","r","e">>, <<"m","o","s","t">>,
  <<"s","o","m","e">>, <<"a","n","y">>, <<"e","a","c","h">>, <<"m","a","n","y">>, <<"f","e","w">>,
  <<"s","e","v","e","r","a","l">>, <<"w","h","i","c","h">>, <<"w","h","o">>, <<"w","h","o","m">>,
  <<"w","h","o","s","e">>, <<"w","h","a","t">>, <<"w","h","e","r","e">>, <<"w","h","y">>,
  <<"h","o","w">>, <<"t","h","a","n">>, <<"i","n","t","o">>, <<"o","v","e","r">>,
  <<"u","n","d","e","r">>, <<"a","b","o","u","t">>, <<"a","f","t","e","r">>,
  <<"b","e","f","o","r","e">>, <<"b","e","t","w","e","e","n">>, <<"d","u","r","i","n","g">>,
  <<"w","i","t","h","o","u","t">>, <<"w","i","t","h","i","n">>, <<"p","e","r">>, <<"v","i","a">>,
  <<"v","s">>, <<"e","t","c">>, <<"j","a","n","u","a","r","y">>,
  <<"f","e","b","r","u","a","r","y">>, <<"m","a","r","c","h">>, <<"a","p","r","i","l">>,
  <<"m","a","y">>, <<"j","u","n","e">>, <<"j","u","l","y">>, <<"a","u","g","u","s","t">>,
  <<"s","e","p","t","e","m","b","e","r">>, <<"o","c","t","o","b","e","r">>,
  <<"n","o","v","e","m","b","e","r">>, <<"d","e","c","e","m","b","e","r">>,
  <<"m","o","n","d","a","y">>, <<"t","u","e","s","d","a","y">>,
  <<"w","e","d","n","e","s","d","a","y">>, <<"t","h","u","r","s","d","a","y">>,
  <<"f","r","i","d","a","y">>, <<"s","a","t","u","r","d","a","y">>, <<"s","u","n","d","a","y">>,
  <<"k","m">>, <<"m","i">>, <<"f","t">>, <<"m">>, <<"c","m">>, <<"m","m">>, <<"k","m","2">>,
  <<"m","2">>, <<"p","m">>, <<"a","m">>
}

\* String.prototype.toLowerCase on one character
toLowerCase(ch) ==
  IF \E i \in 1..26 : Uppers[i] = ch
  THEN Letters[CHOOSE i \in 1..26 : Uppers[i] = ch]
  ELSE ch

\* .replace(/[^a-z\-\s]/g, ' ') on one character
replaceNonWord(ch) ==
  IF ch \in Range(Letters) \cup {"-"} \cup Whitespace THEN ch ELSE " "

\* .split(/\s+/): the pieces between runs of whitespace, the empty pieces
\* before a leading run and after a trailing run included
RECURSIVE SplitFrom(_, _, _, _, _)
SplitFrom(s, i, cur, inRun, acc) ==
  IF i > Len(s) THEN Append(acc, cur)
  ELSE IF s[i] \in Whitespace
       THEN IF inRun THEN SplitFrom(s, i + 1, cur, TRUE, acc)
            ELSE SplitFrom(s, i + 1, <<>>, TRUE, Append(acc, cur))
       ELSE SplitFrom(s, i + 1, Append(cur, s[i]), FALSE, acc)
splitWhitespace(s) == SplitFrom(s, 1, <<>>, FALSE, <<>>)

endsWith(w, suffix) ==
  /\ Len(w) >= Len(suffix)
  /\ SubSeq(w, Len(w) - Len(suffix) + 1, Len(w)) = suffix

\* /^-|-$/.test(w)
edgeHyphen(w) == Len(w) > 0 /\ (w[1] = "-" \/ w[Len(w)] = "-")
\* w.includes('--')
doubleHyphen(w) == \E i \in 1..(Len(w) - 1) : w[i] = "-" /\ w[i + 1] = "-"

\* the four chained .filter calls of lines 150-153
wordFilter(w) ==
  /\ Len(w) >= 3 /\ Len(w) <= 24
  /\ w \notin STOPWORDS
  /\ ~edgeHyphen(w)
  /\ ~doubleHyphen(w)

\* mutant: every word ending in 'ing' is dropped
dropEveryGerund(w) == ~endsWith(w, <<"i","n","g">>)

\* line 156: drop gerunds, keep "...thing"
candidateFilter(w) ==
  ~endsWith(w, <<"i","n","g">>) \/ endsWith(w, <<"t","h","i","n","g">>)

\* freq.get(w) of lines 157-158
freqOf(cands, w) == Cardinality({i \in 1..Len(cands) : cands[i] = w})

\* Array.from(new Set(candidates)): first occurrences, in order
RECURSIVE Dedup(_, _)
Dedup(s, acc) ==
  IF s = <<>> THEN acc
  ELSE Dedup(Tail(s), IF Head(s) \in Range(acc) THEN acc ELSE Append(acc, Head(s)))

\* .sort((a, b) => freq(b) - freq(a)), a stable sort: w goes after every
\* element that is at least as frequent
InsertByFreq(sorted, w, cands) ==
  LET k == Cardinality({i \in 1..Len(sorted) :
                          freqOf(cands, sorted[i]) >= freqOf(cands, w)})
  IN SubSeq(sorted, 1, k) \o <<w>> \o SubSeq(sorted, k + 1, Len(sorted))

RECURSIVE SortByFreq(_, _, _)
SortByFreq(uniq, acc, cands) ==
  IF uniq = <<>> THEN acc
  ELSE SortByFreq(Tail(uniq), InsertByFreq(acc, Head(uniq), cands), cands)

extractCandidateNounsFromText(text) ==
  IF text = <<>> THEN <<>>
  ELSE LET lowered == [i \in 1..Len(text) |-> replaceNonWord(toLowerCase(text[i]))]
           words == SelectSeq(splitWhitespace(lowered), wordFilter)
           candidates == SelectSeq(words, candidateFilter)
       IN SortByFreq(Dedup(candidates, <<>>), <<>>, candidates)

(* ------------------------------------------------------------------ *)
(* The document source: what one fetch of a random summary can bring   *)
(* ------------------------------------------------------------------ *)
\* sample extracts: "cat dog cat", "The owl, the cat", "ant bee"
Extracts == {
  <<>>,
  <<"c","a","t"," ","d","o","g"," ","c","a","t">>,
  <<"T","h","e"," ","o","w","l",","," ","t","h","e"," ","c","a","t">>,
  <<"a","n","t"," ","b","e","e">>
}
\* fetch() rejects, or resolves with a status and a body
Responses ==
  {[kind |-> "networkError"], [kind |-> "status", ok |-> FALSE]}
    \cup {[kind |-> "status", ok |-> TRUE, extract |-> e] : e \in Extracts}

\* the tokens of each extract the source can bring, computed once
wordsOfExtract == [e \in Extracts |-> extractCandidateNounsFromText(e)]

Null == [kind |-> "null"]
Pending == [kind |-> "pending"]
Rejected == [kind |-> "rejected"]

VARIABLES
  bpc,           \* buildWikipediaNounPool: "idle", "loop", "await", "returned", "rejected"
  targetSize,    \* its parameter
  pool,          \* const pool = new Set()
  requestsMade,  \* let requestsMade
  tasks,         \* const tasks: the batch's promises, Pending until settled
  results,       \* const results: what Promise.all gave for the last batch
  issued,        \* number of fetch() calls made so far
  inFlight       \* number of fetches started and not yet settled

buildVars == <<bpc, targetSize, pool, requestsMade, tasks, results, issued, inFlight>>

VARIABLES
  dpc,            \* renderAllNounRows: "idle", "pick" (in pickUniqueRandom), "picked", "done"
  poolArray,      \* its parameter
  lineNo,        \* let i
  rollingExclude, \* const rollingExclude = new Set(), in insertion order
  nounRows,       \* what nounLineEls[i] shows
  exclude,        \* pickUniqueRandom's parameter exclude
  chosen,         \* const chosen
  seen,           \* const seen
  tries,          \* let tries
  list,           \* const list: what pickUniqueRandom returned
  trims           \* number of times the exclusion set was trimmed

drawVars == <<dpc, poolArray, lineNo, rollingExclude, nounRows, exclude, chosen, seen,
              tries, list, trims>>

VARIABLES
  db,             \* window.db is configured
  value,          \* inputs[i][b].elt.value, per field
  focus,          \* the field that is document.activeElement, or NoField
  timer,          \* per field: debounce's timeout t is pending
  lastEdit,       \* per field: the value the latest input event left in the field
  store,          \* the store's blanks/{i}/{b}, Absent until first written
  outbox,         \* requests this client has sent to the store, in order
  inbox,          \* what the store has sent to this client and is not yet handled
  resetsStarted,  \* confirmed onReset calls that have done their local clear
  resetsDone,     \* onReset calls that have run to their end
  statusEl,       \* the page has an element with id 'status'
  status,         \* its textContent
  statusTimers,   \* the pending timeouts of setStatus, oldest first
  consoleErrors,  \* number of console.error calls so far
  ignored,        \* history: the fields whose latest notification came while the
                  \* field held the focus and carried another value than shown
  events          \* number of user and remote events so far

syncVars == <<db, value, focus, timer, lastEdit, store, outbox, inbox, resetsStarted,
              resetsDone, statusEl, status, statusTimers, consoleErrors, ignored, events>>

VARIABLES
  saveCalls,      \* the onSave calls so far: where each stands and its savePromise
  downloads,      \* the files downloadText has produced
  savesLog        \* the records the store holds under 'saves'

saveVars == <<saveCalls, downloads, savesLog>>

VARIABLES
  givenText,      \* the argument of the calls of extractCandidateNounsFromText
  extracted       \* what each call so far has returned

extractVars == <<givenText, extracted>>

VARIABLES
  setupPc         \* the promise chain of lines 87-96: "idle", "pending", "rendering", "failed"

setupVars == <<setupPc>>

vars == <<buildVars, drawVars, syncVars, saveVars, extractVars, setupVars>>

SetupIdle == setupPc = "idle"

ExtractIdle == givenText = <<>> /\ extracted = <<>>

SaveIdle == saveCalls = <<>> /\ downloads = <<>> /\ savesLog = <<>>

BuildIdle ==
  /\ bpc = "idle" /\ targetSize = 0 /\ pool = {} /\ requestsMade = 0
  /\ tasks = <<>> /\ results = <<>> /\ issued = 0 /\ inFlight = 0

Fields == (0..(LINES - 1)) \X (0..(BLANKS_PER_LINE - 1))
NoField == <<-1, -1>>
Values == {"", "a"}
Absent == [kind |-> "absent"]

\* the page after setup, with nothing typed and nothing in the store
SyncIdle ==
  /\ db = FALSE
  /\ value = [f \in Fields |-> ""]
  /\ focus = NoField
  /\ timer = [f \in Fields |-> FALSE]
  /\ lastEdit = [f \in Fields |-> ""]
  /\ store = [f \in Fields |-> Absent]
  /\ outbox = <<>> /\ inbox = <<>>
  /\ resetsStarted = 0 /\ resetsDone = 0
  /\ statusEl = TRUE /\ status = "" /\ statusTimers = <<>>
  /\ consoleErrors = 0 /\ ignored = {}
  /\ events = 0

DrawIdle ==
  /\ dpc = "idle" /\ poolArray = <<>> /\ lineNo = 0 /\ rollingExclude = <<>>
  /\ nounRows = <<>> /\ exclude = {} /\ chosen = <<>> /\ seen = {} /\ tries = 0
  /\ list = <<>> /\ trims = 0

\* fetchWikipediaRandomSummary (lines 137-142): the promise's outcome
fetchWikipediaRandomSummary(resp) ==
  IF resp.kind = "networkError" THEN Rejected
  ELSE IF ~resp.ok THEN Rejected
  ELSE [kind |-> "json", extract |-> resp.extract]

\* mutant: the per-request catch is missing
catchNothing(outcome) == outcome

\* .catch(() => null) of line 168
catchNull(outcome) == IF outcome = Rejected THEN Null ELSE outcome

\* mutant: the batch is taken as done when its first fetch settles
anySettled(ts) == \E i \in 1..Len(ts) : ts[i] # Pending

\* await Promise.all(tasks) continues when every promise has fulfilled
allSettled(ts) == \A i \in 1..Len(ts) : ts[i] # Pending

\* mutant: all words of a document are added before the size is looked at
addEveryWord(p, words, target) == p \cup Range(words)

\* lines 175-178: add the words in order, stop at targetSize
RECURSIVE addWords(_, _, _)
addWords(p, words, target) ==
  IF words = <<>> THEN p
  ELSE CHOOSE r \in {IF Cardinality(p1) >= target THEN p1
                      ELSE addWords(p1, Tail(words), target) :
                        p1 \in {p \cup {Head(words)}}} : TRUE

\* lines 172-180: the loop over the batch's results
RECURSIVE processResults(_, _, _)
processResults(p, rs, target) ==
  IF rs = <<>> THEN p
  ELSE LET r == Head(rs)
       IN IF r = Null \/ r = Pending \/ r.extract = <<>>
          THEN processResults(p, Tail(rs), target)
          ELSE CHOOSE q \in {IF Cardinality(p1) >= target THEN p1
                              ELSE processResults(p1, Tail(rs), target) :
                                p1 \in {addWords(p, wordsOfExtract[r.extract], target)}} : TRUE

\* mutant: the loop forgets the request ceiling
loopUntilTarget == Cardinality(pool) < targetSize

\* mutant: the loop forgets the target
loopUntilCeiling == requestsMade < MAX_REQUESTS

\* the while condition of line 166
loopCondition == Cardinality(pool) < targetSize /\ requestsMade < MAX_REQUESTS

\* line 167
batchSize == Min(BATCH_SIZE, MAX_REQUESTS - requestsMade)

BuildInit ==
  /\ bpc = "loop"
  /\ targetSize \in 1..MaxTarget
  /\ pool = {}
  /\ requestsMade = 0
  /\ tasks = <<>>
  /\ results = <<>>
  /\ issued = 0
  /\ inFlight = 0
  /\ DrawIdle
  /\ SyncIdle
  /\ SaveIdle
  /\ ExtractIdle
  /\ SetupIdle

\* lines 166-168: enter the loop body and start the batch's fetches
IssueBatch ==
  /\ bpc = "loop"
  /\ loopCondition
  /\ tasks' = [i \in 1..batchSize |-> Pending]
  /\ issued' = issued + batchSize
  /\ inFlight' = inFlight + batchSize
  /\ bpc' = "await"
  /\ UNCHANGED <<targetSize, pool, requestsMade, results>>

\* one fetch of the batch settles
FetchSettle ==
  /\ bpc = "await"
  /\ \E i \in 1..Len(tasks), resp \in Responses :
       /\ tasks[i] = Pending
       /\ tasks' = [tasks EXCEPT ![i] = catchNull(fetchWikipediaRandomSummary(resp))]
  /\ inFlight' = inFlight - 1
  /\ UNCHANGED <<bpc, targetSize, pool, requestsMade, results, issued>>

\* lines 169-180: Promise.all settles; count the batch and add its words
BatchDone ==
  /\ bpc = "await"
  /\ \/ \E i \in 1..Len(tasks) : tasks[i] = Rejected
     \/ allSettled(tasks)
  /\ IF \E i \in 1..Len(tasks) : tasks[i] = Rejected
     THEN /\ bpc' = "rejected"
          /\ UNCHANGED <<pool, requestsMade, results>>
     ELSE /\ results' = tasks
          /\ requestsMade' = requestsMade + Len(tasks)
          /\ pool' = processResults(pool, tasks, targetSize)
          /\ bpc' = "loop"
  /\ UNCHANGED <<targetSize, tasks, issued, inFlight>>

\* line 182
BuildReturn ==
  /\ bpc = "loop"
  /\ ~loopCondition
  /\ bpc' = "returned"
  /\ UNCHANGED <<targetSize, pool, requestsMade, tasks, results, issued, inFlight>>

BuildNext ==
  \/ IssueBatch /\ UNCHANGED <<drawVars, syncVars, saveVars, extractVars, setupVars>>
  \/ FetchSettle /\ UNCHANGED <<drawVars, syncVars, saveVars, extractVars, setupVars>>
  \/ BatchDone /\ UNCHANGED <<drawVars, syncVars, saveVars, extractVars, setupVars>>
  \/ BuildReturn /\ UNCHANGED <<drawVars, syncVars, saveVars, extractVars, setupVars>>

BuildSpec == BuildInit /\ [][BuildNext]_vars
\* the event loop runs every ready continuation, and every fetch settles
LiveBuildSpec == BuildSpec /\ WF_vars(BuildNext)

(* ------------------------------------------------------------------ *)
(* Properties of buildWikipediaNounPool                                *)
(* ------------------------------------------------------------------ *)
\* the tokens of the fetches of a batch that succeeded with an extract
tokensOf(r) ==
  IF r.kind = "json" THEN Range(wordsOfExtract[r.extract]) ELSE {}
batchTokens(ts) == UNION {tokensOf(ts[i]) : i \in 1..Len(ts)}

\* C3 Budget termination: whatever the fetches bring, at most MAX_REQUESTS
\* fetch attempts are made in total, failed ones included, and when every
\* fetch settles the build returns, also when targetSize is never reached.
C3_BudgetTermination ==
  /\ [](issued <= MAX_REQUESTS)
  /\ <>(bpc = "returned")

\* the build has returned short of its target with the whole budget spent,
\* a failed fetch among the attempts
C3_Witness ==
  /\ bpc = "returned"
  /\ Cardinality(pool) < targetSize
  /\ issued = MAX_REQUESTS
  /\ \E i \in 1..Len(results) : results[i] = Null

\* C4 Early stop at target: once the pool holds targetSize tokens no further
\* fetch is issued, the next step of the build is its return, and it does return.
C4_EarlyStop ==
  /\ [][Cardinality(pool) >= targetSize => issued' = issued /\ bpc' = "returned"]_vars
  /\ (Cardinality(pool) >= targetSize) ~> (bpc = "returned")

\* returned at the target with requests to spare
C4_Witness ==
  /\ bpc = "returned"
  /\ Cardinality(pool) >= targetSize
  /\ requestsMade < MAX_REQUESTS

\* C6 Fetch-failure tolerance: the build never rejects; when a batch is
\* done the pool keeps what it had, gains nothing but tokens of the batch's
\* successful fetches, and gains all of them unless targetSize was reached.
C6_FailureTolerated ==
  [][bpc = "await" /\ bpc' # "await" =>
       /\ bpc' = "loop"
       /\ pool \subseteq pool'
       /\ pool' \subseteq pool \cup batchTokens(tasks)
       /\ Cardinality(pool') < targetSize => batchTokens(tasks) \subseteq pool']_vars

\* a batch with a failed fetch and a successful one has been processed and
\* the successful one's tokens are in the pool
C6_Witness ==
  /\ bpc = "loop"
  /\ \E i, j \in 1..Len(results) :
       /\ results[i] = Null
       /\ tokensOf(results[j]) # {}
       /\ tokensOf(results[j]) \subseteq pool

\* C7 Sequential batches: a batch is issued only when no fetch is in flight,
\* its size is min(BATCH_SIZE, MAX_REQUESTS - requestsMade), and at most
\* BATCH_SIZE fetches are ever in flight.
C7_SequentialBatches ==
  /\ [](inFlight <= BATCH_SIZE)
  /\ [][issued' # issued =>
          /\ inFlight = 0
          /\ issued' - issued = Min(BATCH_SIZE, MAX_REQUESTS - requestsMade)
          /\ inFlight' = issued' - issued]_vars

\* a later, shorter batch is in flight, partly settled
C7_Witness ==
  /\ bpc = "await"
  /\ requestsMade > 0
  /\ Len(tasks) = MAX_REQUESTS - requestsMade
  /\ Len(tasks) < BATCH_SIZE
  /\ inFlight = Len(tasks)
(* ------------------------------------------------------------------ *)
(* renderAllNounRows and pickUniqueRandom (lines 185-207)              *)
(* ------------------------------------------------------------------ *)
Token(k) == <<"w", k>>
\* what indexing an empty array gives
Undefined == <<"undefined">>
Loading == [kind |-> "loading"]

\* arr[Math.floor(Math.random() * arr.length)] of line 190: any element,
\* and arr[0] of an empty array
randomElements(arr) == IF arr = <<>> THEN {Undefined} ELSE Range(arr)

\* mutant: one try too many
pickOneMore == Len(chosen) < NOUNS_PER_LINE /\ tries <= NOUNS_PER_LINE * TRIES_PER_TOKEN

\* the while condition of line 189, count = NOUNS_PER_LINE
pickCondition == Len(chosen) < NOUNS_PER_LINE /\ tries < NOUNS_PER_LINE * TRIES_PER_TOKEN

\* mutant: the exclusion set is not copied into seen
seenFromNothing(ex) == {}

\* const seen = new Set(exclude) of line 187
seenFrom(ex) == ex

\* list.forEach(w => rollingExclude.add(w)) of line 201
RECURSIVE addAll(_, _)
addAll(ex, ws) ==
  IF ws = <<>> THEN ex
  ELSE addAll(IF Head(ws) \in Range(ex) THEN ex ELSE Append(ex, Head(ws)), Tail(ws))

\* mutant: the newest entries are dropped instead of the oldest
trimNewest(ex) ==
  IF Len(ex) > EXCLUDE_CAP THEN SubSeq(ex, 1, Len(ex) - Min(EXCLUDE_TRIM, Len(ex))) ELSE ex

\* lines 202-204: past the cap, delete the first EXCLUDE_TRIM entries
trimExclude(ex) ==
  IF Len(ex) > EXCLUDE_CAP THEN SubSeq(ex, Min(EXCLUDE_TRIM, Len(ex)) + 1, Len(ex)) ELSE ex

\* the arrays renderAllNounRows is given: Array.from(pool), k distinct tokens.
\* setup (line 89) hands over at least NOUNS_PER_LINE tokens; the shorter
\* arrays are there for pickUniqueRandom's behaviour on a pool below count.
Pools == {[i \in 1..k |-> Token(i)] : k \in 1..MaxPool}

DrawInit ==
  /\ BuildIdle
  /\ SyncIdle
  /\ SaveIdle
  /\ ExtractIdle
  /\ SetupIdle
  /\ poolArray \in Pools
  /\ lineNo = 0
  /\ rollingExclude = <<>>
  /\ nounRows = [i \in 1..LINES |-> Loading]
  /\ trims = 0
  /\ list = <<>>
  \* the first call of pickUniqueRandom (lines 186-188)
  /\ dpc = "pick"
  /\ exclude = {}
  /\ chosen = <<>>
  /\ seen = seenFrom({})
  /\ tries = 0

\* lines 190-192: one pass of pickUniqueRandom's loop
PickTry ==
  /\ dpc = "pick"
  /\ pickCondition
  /\ \E w \in randomElements(poolArray) :
       IF w \notin seen
       THEN chosen' = Append(chosen, w) /\ seen' = seen \cup {w}
       ELSE UNCHANGED <<chosen, seen>>
  /\ tries' = tries + 1
  /\ UNCHANGED <<dpc, poolArray, lineNo, rollingExclude, nounRows, exclude, list, trims>>

\* line 194
PickReturn ==
  /\ dpc = "pick"
  /\ ~pickCondition
  /\ list' = chosen
  /\ dpc' = "picked"
  /\ UNCHANGED <<poolArray, lineNo, rollingExclude, nounRows, exclude, chosen, seen,
                 tries, trims>>

\* lines 201-205 for line i, then i++ and either the next call of
\* pickUniqueRandom or the end of the loop
RenderLine ==
  /\ dpc = "picked"
  /\ LET added == addAll(rollingExclude, list)
         kept == trimExclude(added)
     IN /\ rollingExclude' = kept
        /\ trims' = IF Len(added) > EXCLUDE_CAP THEN trims + 1 ELSE trims
        /\ nounRows' = [nounRows EXCEPT ![lineNo + 1] = [kind |-> "list", list |-> list]]
        /\ lineNo' = lineNo + 1
        /\ IF lineNo + 1 < LINES
           THEN /\ dpc' = "pick"
                /\ exclude' = Range(kept)
                /\ chosen' = <<>>
                /\ seen' = seenFrom(Range(kept))
                /\ tries' = 0
           ELSE /\ dpc' = "done"
                /\ UNCHANGED <<exclude, chosen, seen, tries>>
  /\ UNCHANGED <<poolArray, list>>

DrawNext ==
  \/ PickTry /\ UNCHANGED <<buildVars, syncVars, saveVars, extractVars, setupVars>>
  \/ PickReturn /\ UNCHANGED <<buildVars, syncVars, saveVars, extractVars, setupVars>>
  \/ RenderLine /\ UNCHANGED <<buildVars, syncVars, saveVars, extractVars, setupVars>>

DrawSpec == DrawInit /\ [][DrawNext]_vars
(* ------------------------------------------------------------------ *)
(* Properties of renderAllNounRows and pickUniqueRandom                *)
(* ------------------------------------------------------------------ *)
CeilDiv(a, b) == (a + b - 1) \div b
IsDistinct(sq) == \A a, b \in 1..Len(sq) : a # b => sq[a] # sq[b]
rowTokens(i) == IF nounRows[i].kind = "list" THEN Range(nounRows[i].list) ELSE {}
rowLen(i) == IF nounRows[i].kind = "list" THEN Len(nounRows[i].list) ELSE 0
\* the number of leading lines the claim speaks of
disjointLines == Min(LINES, CeilDiv(EXCLUDE_CAP, NOUNS_PER_LINE))

\* C8 Disjointness across lines: the lists of the first ceil(cap/perLine)
\* lines are pairwise disjoint, and the exclusion set is trimmed only once
\* more than cap tokens can have been drawn (never, when LINES * perLine <= cap).
C8_DisjointLines ==
  /\ \A a, b \in 1..disjointLines : a < b => rowTokens(a) \cap rowTokens(b) = {}
  /\ Len(rollingExclude) <= lineNo * NOUNS_PER_LINE
  /\ trims > 0 => lineNo * NOUNS_PER_LINE > EXCLUDE_CAP

\* every one of the leading lines has been given its full list
C8_Witness ==
  /\ lineNo >= disjointLines
  /\ disjointLines >= 2
  /\ \A a \in 1..disjointLines : rowLen(a) = NOUNS_PER_LINE

clientId == "me"
otherClient == "other"

\* mutant: every field's path is built with line 0
pathForFirstLine(lineIdx, blankIdx) == <<"blanks", 0, blankIdx>>

\* pathFor (line 112): blanks/{lineIdx}/{blankIdx}
pathFor(lineIdx, blankIdx) == <<"blanks", lineIdx, blankIdx>>
\* the decimal key of a child of blanks/{lineIdx}
Digits == <<"0", "1", "2", "3", "4", "5", "6", "7", "8", "9">>
keyOf(blankIdx) == Digits[blankIdx + 1]
NaN == -1
\* parseInt(snap.key, 10) of line 129, for one-digit keys
parseInt(key) ==
  IF \E d \in 1..10 : Digits[d] = key
  THEN (CHOOSE d \in 1..10 : Digits[d] = key) - 1
  ELSE NaN

\* the record written at lines 116-118 and 278 (updatedAt left out)
record(v, by) == [value |-> v, editedBy |-> by]

\* setStatus (lines 47-50): the new textContent and timeouts
setStatusText(msg) == IF statusEl THEN msg ELSE status
setStatusTimers(msg) == IF statusEl THEN Append(statusTimers, msg) ELSE statusTimers

\* data.value || '' of line 133
orEmpty(v) == IF v = "" THEN "" ELSE v

\* mutant: the listener leaves every field as it is
applyRemoteNever(lineIdx, snap) == value

\* mutant: the remote value is applied to the focused field too
applyRemoteAlways(lineIdx, snap) ==
  LET blankIdx == parseInt(snap.key)
  IN IF blankIdx = NaN \/ snap.data = Absent \/ <<lineIdx, blankIdx>> \notin Fields
     THEN value
     ELSE [value EXCEPT ![<<lineIdx, blankIdx>>] = orEmpty(snap.data.value)]

\* applyRemote (lines 128-134): the values of the inputs afterwards
applyRemote(lineIdx, snap) ==
  LET blankIdx == parseInt(snap.key)
  IN IF blankIdx = NaN \/ snap.data = Absent \/ <<lineIdx, blankIdx>> \notin Fields
     THEN value
     ELSE IF focus # <<lineIdx, blankIdx>>
          THEN [value EXCEPT ![<<lineIdx, blankIdx>>] = orEmpty(snap.data.value)]
          ELSE value

\* the child_added / child_changed event for one field (lines 124-125)
snapshot(f, data) == [kind |-> "event", line |-> f[1], key |-> keyOf(f[2]), data |-> data]

\* mutant: the local clear is done only when a store is configured
localClearIfDb == IF db THEN [f \in Fields |-> ""] ELSE value

\* lines 268-272: the local clear
localClear == [f \in Fields |-> ""]

\* mutant: the updates object holds the fields of line 0 only
resetUpdatesFirstLine ==
  [p \in {pathFor(f[1], f[2]) : f \in {g \in Fields : g[1] = 0}} |-> record("", clientId)]

\* lines 275-280: the updates object, one entry per path
resetUpdates == [p \in {pathFor(f[1], f[2]) : f \in Fields} |-> record("", clientId)]

SyncInit ==
  /\ BuildIdle
  /\ DrawIdle
  /\ SaveIdle
  /\ ExtractIdle
  /\ SetupIdle
  /\ db \in BOOLEAN
  /\ value = [f \in Fields |-> ""]
  /\ focus = NoField
  /\ timer = [f \in Fields |-> FALSE]
  /\ lastEdit = [f \in Fields |-> ""]
  /\ store = [f \in Fields |-> Absent]
  /\ outbox = <<>>
  /\ inbox = <<>>
  /\ resetsStarted = 0
  /\ resetsDone = 0
  /\ statusEl \in BOOLEAN
  /\ status = ""
  /\ statusTimers = <<>>
  /\ consoleErrors = 0 /\ ignored = {}
  /\ events = 0

\* the user moves the focus to a field, or away from all fields
Focus ==
  /\ events < MaxEvents
  /\ \E f \in Fields \cup {NoField} : f # focus /\ focus' = f
  /\ events' = events + 1
  /\ UNCHANGED <<db, ignored, value, timer, lastEdit, store, outbox, inbox, resetsStarted,
                 resetsDone, statusEl, consoleErrors, status, statusTimers>>

\* an 'input' event on the focused field (line 106): the debounced
\* handler clears the pending timeout and sets a new one
Edit ==
  /\ events < MaxEvents
  /\ focus # NoField
  /\ \E v \in Values :
       /\ v # value[focus]
       /\ value' = [value EXCEPT ![focus] = v]
       /\ lastEdit' = [lastEdit EXCEPT ![focus] = v]
  /\ timer' = [timer EXCEPT ![focus] = TRUE]
  /\ events' = events + 1
  /\ UNCHANGED <<db, ignored, focus, store, outbox, inbox, resetsStarted, resetsDone, statusEl, consoleErrors,
                 status, statusTimers>>

\* e.target.value, read when the timeout runs (line 106)
targetValue(f) == value[f]

\* mutant: writeBlank without the guard of line 115
writeBlankUnguarded(lineIdx, blankIdx, v) ==
  Append(outbox, [op |-> "set", path |-> pathFor(lineIdx, blankIdx),
                  data |-> record(v, clientId)])

\* writeBlank (lines 114-119): the requests sent afterwards
writeBlank(lineIdx, blankIdx, v) ==
  IF ~db THEN outbox
  ELSE Append(outbox, [op |-> "set", path |-> pathFor(lineIdx, blankIdx),
                       data |-> record(v, clientId)])

\* the 250 ms of a field's debounce have passed: writeBlank runs
DebounceFire ==
  /\ \E f \in Fields :
       /\ timer[f]
       /\ timer' = [timer EXCEPT ![f] = FALSE]
       /\ outbox' = writeBlank(f[1], f[2], targetValue(f))
  /\ UNCHANGED <<db, ignored, value, focus, lastEdit, store, inbox, resetsStarted, resetsDone,
                 statusEl, consoleErrors, status, statusTimers, events>>

fieldOfPath(path) == <<path[2], path[3]>>

\* the fields in the order of their paths
fieldSeq ==
  [k \in 1..Cardinality(Fields) |->
     <<(k - 1) \div BLANKS_PER_LINE, (k - 1) % BLANKS_PER_LINE>>]

\* the store commits this client's oldest request and notifies the client
StoreCommit ==
  /\ outbox # <<>>
  /\ LET req == Head(outbox)
     IN IF req.op = "set"
        THEN /\ store' = [store EXCEPT ![fieldOfPath(req.path)] = req.data]
             /\ inbox' = Append(inbox, snapshot(fieldOfPath(req.path), req.data))
        ELSE \* update(): every path of the batch is written in one step
             LET hit(f) == \E q \in DOMAIN req.data : fieldOfPath(q) = f
                 put(f) == req.data[CHOOSE q \in DOMAIN req.data : fieldOfPath(q) = f]
                 written == SelectSeq(fieldSeq, hit)
             IN /\ store' = [f \in Fields |-> IF hit(f) THEN put(f) ELSE store[f]]
                /\ inbox' = inbox \o [k \in 1..Len(written) |->
                                       snapshot(written[k], put(written[k]))]
                                \o <<[kind |-> "ack", ok |-> TRUE]>>
  /\ outbox' = Tail(outbox)
  /\ UNCHANGED <<db, ignored, value, focus, timer, lastEdit, resetsStarted, resetsDone, statusEl, consoleErrors,
                 status, statusTimers, events>>

\* .catch(console.error) of line 118: what a refused set() leaves behind
catchSetFailure == [errors |-> consoleErrors + 1, text |-> status, timers |-> statusTimers]

\* the store refuses this client's oldest request; a refused set() is only
\* logged (line 118), a refused update() rejects onReset's await
StoreReject ==
  /\ outbox # <<>>
  /\ IF Head(outbox).op = "update"
     THEN /\ inbox' = Append(inbox, [kind |-> "ack", ok |-> FALSE])
          /\ UNCHANGED <<consoleErrors, status, statusTimers>>
     ELSE /\ consoleErrors' = catchSetFailure.errors
          /\ status' = catchSetFailure.text
          /\ statusTimers' = catchSetFailure.timers
          /\ UNCHANGED inbox
  /\ outbox' = Tail(outbox)
  /\ UNCHANGED <<db, ignored, value, focus, timer, lastEdit, store, resetsStarted, resetsDone,
                 statusEl, events>>

\* another client's writeBlank reaches the store
RemoteWrite ==
  /\ db
  /\ events < MaxEvents
  /\ \E f \in Fields, v \in Values :
       /\ store' = [store EXCEPT ![f] = record(v, otherClient)]
       /\ inbox' = Append(inbox, snapshot(f, record(v, otherClient)))
  /\ events' = events + 1
  /\ UNCHANGED <<db, ignored, value, focus, timer, lastEdit, outbox, resetsStarted, resetsDone,
                 statusEl, consoleErrors, status, statusTimers>>

\* the listener of lines 124-125 runs for the oldest notification
Notify ==
  /\ inbox # <<>>
  /\ Head(inbox).kind = "event"
  /\ value' = applyRemote(Head(inbox).line, Head(inbox))
  /\ ignored' = LET f == <<Head(inbox).line, parseInt(Head(inbox).key)>>
                IN IF focus = f /\ value[f] # orEmpty(Head(inbox).data.value)
                   THEN ignored \cup {f} ELSE ignored \ {f}
  /\ inbox' = Tail(inbox)
  /\ UNCHANGED <<db, focus, timer, lastEdit, store, outbox, resetsStarted, resetsDone,
                 statusEl, consoleErrors, status, statusTimers, events>>

\* mutant: onReset reports success whatever the update did
resetMessageAlwaysOk(ok) == "All blanks reset."

\* lines 283-286: the status onReset ends with
resetMessage(ok) == IF ok THEN "All blanks reset." ELSE "Reset failed. Check console."

\* onReset up to its await (lines 265-281), the user having answered confirm()
ResetClick ==
  /\ events < MaxEvents
  /\ events' = events + 1
  /\ \E confirmed \in BOOLEAN :
       IF ~confirmed
       THEN UNCHANGED <<value, outbox, resetsStarted, resetsDone, status, statusTimers>>
       ELSE /\ value' = localClear
            /\ resetsStarted' = resetsStarted + 1
            /\ IF db
               THEN /\ outbox' = Append(outbox, [op |-> "update", data |-> resetUpdates])
                    /\ UNCHANGED <<resetsDone, status, statusTimers>>
               ELSE /\ resetsDone' = resetsDone + 1
                    /\ status' = setStatusText(resetMessage(TRUE))
                    /\ statusTimers' = setStatusTimers(resetMessage(TRUE))
                    /\ UNCHANGED outbox
  /\ UNCHANGED <<db, ignored, focus, timer, lastEdit, store, inbox, statusEl, consoleErrors>>

\* onReset after its await (lines 283-287)
ResetResume ==
  /\ inbox # <<>>
  /\ Head(inbox).kind = "ack"
  /\ LET msg == resetMessage(Head(inbox).ok)
     IN /\ status' = setStatusText(msg)
        /\ statusTimers' = setStatusTimers(msg)
  /\ consoleErrors' = IF Head(inbox).ok THEN consoleErrors ELSE consoleErrors + 1
  /\ resetsDone' = resetsDone + 1
  /\ inbox' = Tail(inbox)
  /\ UNCHANGED <<db, ignored, value, focus, timer, lastEdit, store, outbox, resetsStarted,
                 statusEl, events>>

\* the oldest timeout of setStatus runs (line 49)
StatusTimeout ==
  /\ statusTimers # <<>>
  /\ status' = IF status = Head(statusTimers) THEN "" ELSE status
  /\ statusTimers' = Tail(statusTimers)
  /\ UNCHANGED <<db, ignored, value, focus, timer, lastEdit, store, outbox, inbox, resetsStarted,
                 resetsDone, statusEl, consoleErrors, events>>

Next ==
  \/ Focus /\ UNCHANGED <<buildVars, drawVars, saveVars, extractVars, setupVars>>
  \/ Edit /\ UNCHANGED <<buildVars, drawVars, saveVars, extractVars, setupVars>>
  \/ DebounceFire /\ UNCHANGED <<buildVars, drawVars, saveVars, extractVars, setupVars>>
  \/ StoreCommit /\ UNCHANGED <<buildVars, drawVars, saveVars, extractVars, setupVars>>
  \/ StoreReject /\ UNCHANGED <<buildVars, drawVars, saveVars, extractVars, setupVars>>
  \/ RemoteWrite /\ UNCHANGED <<buildVars, drawVars, saveVars, extractVars, setupVars>>
  \/ Notify /\ UNCHANGED <<buildVars, drawVars, saveVars, extractVars, setupVars>>
  \/ ResetClick /\ UNCHANGED <<buildVars, drawVars, saveVars, extractVars, setupVars>>
  \/ ResetResume /\ UNCHANGED <<buildVars, drawVars, saveVars, extractVars, setupVars>>
  \/ StatusTimeout /\ UNCHANGED <<buildVars, drawVars, saveVars, extractVars, setupVars>>

Init == SyncInit

Spec == Init /\ [][Next]_vars
(* ------------------------------------------------------------------ *)
(* Compose, export and save (lines 210-262)                            *)
(* ------------------------------------------------------------------ *)
\* segments[i] (lines 18-23), each segment as its words
segments(i) ==
  <<<<"Line", Digits[i + 2], ":", "Before">>, <<"then">>, <<"and", "then">>, <<"finally">>>>

\* valueAt (line 210), as the words of the value
valueAt(i, b) == IF value[<<i, b>>] = "" THEN <<>> ELSE <<value[<<i, b>>]>>

\* composeLine (lines 212-220): the segments and the values in turn; joining
\* with ' ', collapsing white space and trimming leave the words in order
RECURSIVE composeFrom(_, _)
composeFrom(i, b) ==
  IF b = BLANKS_PER_LINE THEN segments(i)[b + 1]
  ELSE segments(i)[b + 1] \o valueAt(i, b) \o composeFrom(i, b + 1)
composeLine(i) == composeFrom(i, 0)

\* exportLinesArray and exportText (lines 222-223)
exportLinesArray == [i \in 1..LINES |-> composeLine(i - 1)]
exportText == exportLinesArray

\* the ways the call that starts the remote save can end (lines 241-243)
PushOutcomes == IF db THEN {"promise", "throws"} ELSE {"resolved"}

\* lines 246-252: downloadText is reached and does not throw
downloadHappens(pushed, downloadOk) == pushed # "throws" /\ downloadOk

SaveInit ==
  /\ BuildIdle
  /\ DrawIdle
  /\ db \in BOOLEAN
  /\ value \in [Fields -> Values]
  /\ focus = NoField
  /\ timer = [f \in Fields |-> FALSE]
  /\ lastEdit = [f \in Fields |-> ""]
  /\ store = [f \in Fields |-> Absent]
  /\ outbox = <<>>
  /\ inbox = <<>>
  /\ resetsStarted = 0
  /\ resetsDone = 0
  /\ statusEl \in BOOLEAN
  /\ status = ""
  /\ statusTimers = <<>>
  /\ consoleErrors = 0 /\ ignored = {}
  /\ events = 0
  /\ SaveIdle
  /\ ExtractIdle
  /\ SetupIdle

\* onSave up to its await (lines 236-256)
SaveClick ==
  /\ Len(saveCalls) < MaxSaves
  /\ \E pushed \in PushOutcomes, downloadOk \in BOOLEAN :
       IF pushed = "throws"
       THEN \* the call of line 242 throws: onSave's promise rejects there
            /\ saveCalls' = Append(saveCalls,
                 [at |-> "threw", savePromise |-> "none", downloaded |-> FALSE,
                  downloadFailed |-> FALSE])
            /\ UNCHANGED <<downloads, status, statusTimers, consoleErrors>>
       ELSE LET msg == IF downloadOk THEN "Downloaded text file."
                       ELSE "Download failed. Check console."
            IN /\ saveCalls' = Append(saveCalls,
                    [at |-> "await",
                     savePromise |-> IF pushed = "promise" THEN "pending" ELSE "fulfilled",
                     downloaded |-> downloadHappens(pushed, downloadOk),
                     downloadFailed |-> ~downloadOk])
               /\ downloads' = IF downloadHappens(pushed, downloadOk)
                               THEN Append(downloads, exportText) ELSE downloads
               /\ status' = setStatusText(msg)
               /\ statusTimers' = setStatusTimers(msg)
               /\ consoleErrors' = IF downloadOk THEN consoleErrors
                                   ELSE consoleErrors + 1
  /\ UNCHANGED <<db, ignored, value, focus, timer, lastEdit, store, outbox, inbox, resetsStarted,
                 resetsDone, statusEl, events, savesLog>>

\* the store accepts or refuses a pending push to 'saves'
SaveSettle ==
  /\ \E k \in 1..Len(saveCalls), ok \in BOOLEAN :
       /\ saveCalls[k].savePromise = "pending"
       /\ saveCalls' = [saveCalls EXCEPT ![k].savePromise =
                          IF ok THEN "fulfilled" ELSE "rejected"]
       /\ savesLog' = IF ok THEN Append(savesLog, [text |-> exportText,
                                                   clientId |-> clientId])
                      ELSE savesLog
  /\ UNCHANGED <<syncVars, downloads>>

\* onSave after its await (lines 257-261)
SaveResume ==
  /\ \E k \in 1..Len(saveCalls) :
       /\ saveCalls[k].at = "await"
       /\ saveCalls[k].savePromise \in {"fulfilled", "rejected"}
       /\ saveCalls' = [saveCalls EXCEPT ![k].at = "done"]
       /\ LET msg == IF saveCalls[k].savePromise = "fulfilled"
                     THEN "Saved to Firebase and downloaded."
                     ELSE "Downloaded. Firebase save failed (check rules)."
          IN /\ status' = setStatusText(msg)
             /\ statusTimers' = setStatusTimers(msg)
       /\ consoleErrors' = IF saveCalls[k].savePromise = "fulfilled" THEN consoleErrors
                           ELSE consoleErrors + 1
  /\ UNCHANGED <<db, ignored, value, focus, timer, lastEdit, store, outbox, inbox, resetsStarted,
                 resetsDone, statusEl, events, downloads, savesLog>>

SaveNext ==
  \/ SaveClick /\ UNCHANGED <<buildVars, drawVars, extractVars, setupVars>>
  \/ SaveSettle /\ UNCHANGED <<buildVars, drawVars, extractVars, setupVars>>
  \/ SaveResume /\ UNCHANGED <<buildVars, drawVars, extractVars, setupVars>>
  \/ StatusTimeout /\ UNCHANGED <<buildVars, drawVars, saveVars, extractVars, setupVars>>

SaveSpec == SaveInit /\ [][SaveNext]_vars
(* ------------------------------------------------------------------ *)
(* Properties of the field sync engine and of onSave                   *)
(* ------------------------------------------------------------------ *)
\* this step is the listener handling the oldest notification
notifyStep == inbox # <<>> /\ Head(inbox).kind = "event" /\ inbox' = Tail(inbox)

\* C1 Focus protection: when applyRemote runs for a field that holds the
\* focus the field's value is left as it is; when the field does not hold
\* the focus its value becomes data.value, or '' when that is empty.
C1_FocusProtection ==
  [][notifyStep =>
       LET snap == Head(inbox)
           f == <<snap.line, parseInt(snap.key)>>
       IN IF focus = f THEN value'[f] = value[f]
          ELSE value'[f] = orEmpty(snap.data.value)]_vars

\* the user put the focus on a field, another client then wrote "a" to it,
\* and the notification has been handled: the field still shows ''
C1_Witness ==
  \E f \in Fields :
    /\ events = 2
    /\ focus = f
    /\ store[f] = record("a", otherClient)
    /\ inbox = <<>>
    /\ value[f] = ""

\* C2 Debounce coalescing: when the pending timeout of a field runs, exactly
\* one write is sent for the field and it carries the value of the last edit,
\* whatever focus changes, notifications and resets came in between.
C2_DebounceCoalescing ==
  [][\A f \in Fields :
       db /\ timer[f] /\ ~timer'[f] =>
         outbox' = Append(outbox, [op |-> "set", path |-> pathFor(f[1], f[2]),
                                   data |-> record(lastEdit[f], clientId)])]_vars

allEmpty(vals) == \A f \in Fields : vals[f] = ""

\* C5 as stated: when a confirmed onReset has run to its end, every field's
\* local value is ''.
C5_EmptyAtCompletion == [][resetsDone' > resetsDone => allEmpty(value')]_vars

\* C5 as amended: the local clear of a confirmed onReset leaves every
\* field '' at once, with or without a store, and the settling of the
\* batch update, success or failure, changes no field's local value.
C5_LocalClearKept ==
  [][/\ resetsStarted' > resetsStarted => allEmpty(value')
     /\ resetsDone' > resetsDone /\ resetsStarted' = resetsStarted => value' = value]_vars

\* a field was typed into, then reset; the batch update failed and the
\* fields are still empty
C5_Witness ==
  /\ resetsDone = 1
  /\ status = "Reset failed. Check console."
  /\ allEmpty(value)
  /\ \E f \in Fields : lastEdit[f] # ""

\* C10 Save always downloads: every call of onSave reaches downloadText,
\* whatever the remote save does, so a file is produced unless downloadText
\* itself throws, and it is produced before the remote save settles.
C10_SaveAlwaysDownloads ==
  \A k \in 1..Len(saveCalls) : saveCalls[k].downloaded \/ saveCalls[k].downloadFailed
(* ------------------------------------------------------------------ *)
(* Local-only mode: the page without window.db                         *)
(* ------------------------------------------------------------------ *)
\* the page after setup when no store is configured
LocalInit == SyncInit /\ ~db

\* the user's clicks and keystrokes so far, the save button included
userActions == events + Len(saveCalls)

\* the handlers that can run without a store: with outbox and inbox empty
\* and no pending save promise the steps of the store are never enabled
LocalNext ==
  \/ userActions < MaxEvents /\ Focus /\ UNCHANGED <<buildVars, drawVars, saveVars, extractVars, setupVars>>
  \/ userActions < MaxEvents /\ Edit /\ UNCHANGED <<buildVars, drawVars, saveVars, extractVars, setupVars>>
  \/ DebounceFire /\ UNCHANGED <<buildVars, drawVars, saveVars, extractVars, setupVars>>
  \/ userActions < MaxEvents /\ ResetClick /\ UNCHANGED <<buildVars, drawVars, saveVars, extractVars, setupVars>>
  \/ StatusTimeout /\ UNCHANGED <<buildVars, drawVars, saveVars, extractVars, setupVars>>
  \/ userActions < MaxEvents /\ SaveClick /\ UNCHANGED <<buildVars, drawVars, extractVars, setupVars>>
  \/ SaveResume /\ UNCHANGED <<buildVars, drawVars, extractVars, setupVars>>

LocalSpec == LocalInit /\ [][LocalNext]_vars

failedDownloads == Cardinality({k \in 1..Len(saveCalls) : saveCalls[k].downloadFailed})

\* C11 Local-only mode: without a store no request is ever sent to it by
\* writeBlank, onReset or onSave and nothing comes back from it, none of
\* them raises an error (the only errors logged are downloadText's own),
\* a confirmed reset runs to its end at once, and every onSave call goes on
\* to downloadText with its remote save taken as done.
C11_LocalOnly ==
  ~db =>
    /\ outbox = <<>> /\ inbox = <<>> /\ savesLog = <<>>
    /\ \A f \in Fields : store[f] = Absent
    /\ resetsDone = resetsStarted
    /\ consoleErrors = failedDownloads
    /\ status \notin {"Reset failed. Check console.",
                      "Downloaded. Firebase save failed (check rules)."}
    /\ \A k \in 1..Len(saveCalls) :
         /\ saveCalls[k].at # "threw"
         /\ saveCalls[k].savePromise = "fulfilled"
         /\ saveCalls[k].downloaded \/ saveCalls[k].downloadFailed
    /\ Len(downloads) = Len(saveCalls) - failedDownloads

\* without a store: a field was typed into, its debounce has run, and the
\* page was saved: the downloaded text holds what was typed
C11_Witness ==
  /\ ~db
  /\ \E f \in Fields : value[f] = "a" /\ lastEdit[f] = "a" /\ ~timer[f]
  /\ Len(saveCalls) = 1 /\ saveCalls[1].at = "done"
  /\ Len(downloads) = 1
  /\ \E i \in 1..LINES : \E j \in 1..Len(downloads[1][i]) : downloads[1][i][j] = "a"
(* ------------------------------------------------------------------ *)
(* Failures of the store                                               *)
(* ------------------------------------------------------------------ *)
\* this step is the client learning that a request of its own has failed:
\* the rejection handlers of lines 118 and 284-286 both call console.error
failureStep == consoleErrors' > consoleErrors

\* this step is onReset resuming after its await
resumeStep == inbox # <<>> /\ Head(inbox).kind = "ack" /\ inbox' = Tail(inbox)

FailureMessages == {"Reset failed. Check console."}

\* this step is the timeout of field f's debounce running with a store
sendStep(f) == db /\ timer[f] /\ ~timer'[f]

\* the request writeBlank sends for field f is added to the requests sent
sentFor(f) ==
  /\ Len(outbox') = Len(outbox) + 1
  /\ outbox'[Len(outbox')].op = "set"
  /\ fieldOfPath(outbox'[Len(outbox')].path) = f
  /\ outbox'[Len(outbox')].data.editedBy = clientId

\* C12 as stated: whenever a single-field write or the batched reset update
\* fails, the page (having a status element) shows a failure status message,
\* and no field's local value changes.
C12_FailureSurfaced ==
  [][failureStep => /\ statusEl => status' \in FailureMessages
                    /\ value' = value]_vars

\* C12 as amended: a failed batched reset update is logged and shown as the
\* status 'Reset failed. Check console.'; a failed single-field write is only
\* logged and leaves the status as it is; neither changes any field's local
\* value, and whatever has failed before, a debounce timeout that runs still
\* sends the field's write.
C12_FailureHandled ==
  [][/\ failureStep =>
          /\ value' = value
          /\ IF resumeStep
             THEN statusEl => status' \in FailureMessages
             ELSE status' = status /\ statusTimers' = statusTimers
     /\ \A f \in Fields : sendStep(f) => sentFor(f)]_vars

\* a field's write was refused by the store: it was logged, no status is
\* shown, and the write of a later edit of the field has been sent
C12_Witness ==
  /\ statusEl /\ consoleErrors = 1 /\ resetsStarted = 0
  /\ status = "" /\ statusTimers = <<>>
  /\ events = 3
  /\ \E f \in Fields :
       /\ focus = f /\ lastEdit[f] = value[f]
       /\ outbox = <<[op |-> "set", path |-> pathFor(f[1], f[2]),
                      data |-> record(value[f], clientId)]>>
(* ------------------------------------------------------------------ *)
(* setStatus (lines 47-50)                                             *)
(* ------------------------------------------------------------------ *)
\* this step is the oldest timeout of setStatus running
timeoutStep == statusTimers # <<>> /\ statusTimers' = Tail(statusTimers)

\* the message of the oldest timeout has been superseded: setStatus has been
\* called again since, so a younger timeout is pending as well
superseded == Len(statusTimers) >= 2

\* C13 Status auto-clear: the timeout of a superseded message never clears
\* the newer message, also when both messages have the same text, so a
\* message stays visible until its own timeout unless replaced.
C13_SupersededTimerHarmless ==
  [][timeoutStep /\ superseded => status' = status]_vars
(* ------------------------------------------------------------------ *)
(* Independence of the fields                                          *)
(* ------------------------------------------------------------------ *)
\* this step is the store handling this client's batched update
batchStep == outbox # <<>> /\ Head(outbox).op = "update" /\ outbox' = Tail(outbox)

\* this step is the store committing this client's oldest single-field write
setCommitStep ==
  /\ outbox # <<>> /\ Head(outbox).op = "set" /\ outbox' = Tail(outbox)
  /\ Len(inbox') = Len(inbox) + 1

storeChanged == {g \in Fields : store'[g] # store[g]}
valueChanged == {g \in Fields : value'[g] # value[g]}

\* C14 Independent fields: the write sent for field (line, blank) goes to
\* blanks/{line}/{blank} and to no other path; when the store commits it
\* only that field's store value changes and becomes the written record;
\* no single-field write, of this or of another client, changes two fields
\* of the store; and the listener handling a notification for a field
\* changes no other field's local value.
C14_IndependentFields ==
  [][/\ \A f \in Fields :
          sendStep(f) =>
            /\ Len(outbox') = Len(outbox) + 1
            /\ outbox'[Len(outbox')].path = <<"blanks", f[1], f[2]>>
            /\ \A k \in 1..Len(outbox) : outbox'[k] = outbox[k]
     /\ setCommitStep =>
          LET req == Head(outbox)
              f == <<req.path[2], req.path[3]>>
          IN /\ store'[f] = req.data
             /\ storeChanged \subseteq {f}
     /\ ~batchStep => Cardinality(storeChanged) <= 1
     /\ notifyStep =>
          valueChanged \subseteq {<<Head(inbox).line, parseInt(Head(inbox).key)>>}]_vars

\* this client wrote "a" to one field and another client wrote "a" to a
\* different field; both writes are in the store and both fields show them
C14_Witness ==
  \E f, g \in Fields :
    /\ f # g
    /\ store[f] = record("a", clientId) /\ value[f] = "a"
    /\ store[g] = record("a", otherClient) /\ value[g] = "a"
    /\ outbox = <<>> /\ inbox = <<>>
(* ------------------------------------------------------------------ *)
(* extractCandidateNounsFromText on sample texts                       *)
(* ------------------------------------------------------------------ *)
\* 21 letters: with "cat" a word of 24, with "sing" a word of 25
LongPiece == [i \in 1..21 |-> "z"]

\* the pieces the sample texts are put together from
Pieces == {
  <<"c","a","t">>, <<"c","a","t"," ">>, <<"D","o","g">>, <<"D","o","g","\n">>,
  <<" ">>, <<"-">>, <<"-","-">>, <<"1">>, <<"t","h","e">>, <<"o","x">>,
  <<"s","i","n","g">>, <<"t","h","i","n","g">>, LongPiece
}

RECURSIVE Concat(_)
Concat(ps) == IF ps = <<>> THEN <<>> ELSE Head(ps) \o Concat(Tail(ps))

\* every text of at most MaxPieces pieces
Texts == {Concat(ps) : ps \in UNION {[1..k -> Pieces] : k \in 0..MaxPieces}}

ExtractInit ==
  /\ BuildIdle /\ DrawIdle /\ SyncIdle /\ SaveIdle /\ SetupIdle
  /\ givenText \in Texts
  /\ extracted = <<>>

\* one call of extractCandidateNounsFromText(givenText)
Extract ==
  /\ Len(extracted) < MaxCalls
  /\ extracted' = Append(extracted, extractCandidateNounsFromText(givenText))
  /\ UNCHANGED givenText

ExtractNext == Extract /\ UNCHANGED <<buildVars, drawVars, syncVars, saveVars, setupVars>>

ExtractSpec == ExtractInit /\ [][ExtractNext]_vars

\* the text in lower case with every character that is not a letter, a
\* hyphen or white space replaced by a space
normalised(t) ==
  [i \in 1..Len(t) |->
     IF \E k \in 1..26 : t[i] = Uppers[k] THEN Letters[CHOOSE k \in 1..26 : t[i] = Uppers[k]]
     ELSE IF (\E k \in 1..26 : t[i] = Letters[k]) \/ t[i] = "-" \/ t[i] \in Whitespace
          THEN t[i] ELSE " "]

\* the positions of t where a token starts, and the token starting there:
\* the longest stretch without white space
tokenStarts(t) ==
  {i \in 1..Len(t) : t[i] \notin Whitespace /\ (i = 1 \/ t[i - 1] \in Whitespace)}
tokenAt(t, i) ==
  LET stops == {k \in i..Len(t) : t[k] \in Whitespace}
      last == IF stops = {} THEN Len(t)
              ELSE (CHOOSE k \in stops : \A m \in stops : k <= m) - 1
  IN SubSeq(t, i, last)

\* the conditions of the claim on one token
admissible(w) ==
  /\ Len(w) \in 3..24
  /\ w \notin STOPWORDS
  /\ w[1] # "-" /\ w[Len(w)] # "-"
  /\ \A i \in 1..(Len(w) - 1) : ~(w[i] = "-" /\ w[i + 1] = "-")
  /\ \/ SubSeq(w, Len(w) - 2, Len(w)) # <<"i","n","g">>
     \/ (Len(w) >= 5 /\ SubSeq(w, Len(w) - 4, Len(w)) = <<"t","h","i","n","g">>)

\* how often, and where first, the token w stands in t
occurrences(t, w) == {i \in tokenStarts(t) : tokenAt(t, i) = w}
firstSeen(t, w) == CHOOSE i \in occurrences(t, w) : \A m \in occurrences(t, w) : i <= m

\* out is the list the claim describes for the text t
describedList(t, out) ==
  LET n == normalised(t)
  IN /\ Range(out) = {w \in {tokenAt(n, i) : i \in tokenStarts(n)} : admissible(w)}
     /\ \A a, b \in 1..Len(out) :
          a < b =>
            /\ out[a] # out[b]
            /\ LET ca == Cardinality(occurrences(n, out[a]))
                   cb == Cardinality(occurrences(n, out[b]))
               IN ca > cb \/ (ca = cb /\ firstSeen(n, out[a]) < firstSeen(n, out[b]))

\* C15 Token extraction: every call of extractCandidateNounsFromText on a
\* text returns the admissible tokens of the normalised text (length 3 to
\* 24, no stop-word, no hyphen at either end, no doubled hyphen, no ending
\* 'ing' other than 'thing'), each once, the more frequent first and equally
\* frequent ones in the order they are first seen; so two calls on the
\* same text return the same list.
C15_TokenExtraction ==
  \A k \in 1..Len(extracted) : describedList(givenText, extracted[k])

\* "Dog\ncat cat ": the text was extracted twice and "cat", seen twice,
\* comes before "dog", seen first
C15_Witness ==
  /\ givenText = <<"D","o","g","\n","c","a","t"," ","c","a","t"," ">>
  /\ extracted = <<<<<<"c","a","t">>, <<"d","o","g">>>>, <<<<"c","a","t">>, <<"d","o","g">>>>>>
(* ------------------------------------------------------------------ *)
(* setup's promise chain (lines 86-96): the pool is rendered or the     *)
(* failure is shown                                                    *)
(* ------------------------------------------------------------------ *)
FailedRow == [kind |-> "failed"]
LoadFailedStatus == "Couldn't load nouns from Wikipedia."

\* Array.from(pool) (line 90) for a pool of the tokens Token(1..k)
arrayFrom(p) == [i \in 1..Cardinality(p) |-> Token(i)]

\* mutant: a pool of exactly NOUNS_PER_LINE tokens is refused too
insufficientOrEqual(p) == Cardinality(p) <= NOUNS_PER_LINE

\* the test of line 89
insufficient(p) == Cardinality(p) < NOUNS_PER_LINE

\* the promise of buildWikipediaNounPool has settled: fulfilled with a pool
\* of 0..MaxPool tokens, or rejected (an exception inside the build, such
\* as an extract that is not a string); every noun row shows the loading
\* text of line 76
SetupInit ==
  /\ SaveIdle /\ ExtractIdle
  \* the store plays no part in these steps
  /\ db = FALSE /\ statusEl \in BOOLEAN
  /\ value = [f \in Fields |-> ""] /\ focus = NoField
  /\ timer = [f \in Fields |-> FALSE] /\ lastEdit = [f \in Fields |-> ""]
  /\ store = [f \in Fields |-> Absent] /\ outbox = <<>> /\ inbox = <<>>
  /\ resetsStarted = 0 /\ resetsDone = 0
  /\ status = "" /\ statusTimers = <<>> /\ consoleErrors = 0 /\ ignored = {} /\ events = 0
  /\ bpc \in {"returned", "rejected"}
  /\ pool \in {{Token(i) : i \in 1..k} : k \in 0..MaxPool}
  /\ bpc = "rejected" => pool = {}
  /\ targetSize = 0 /\ requestsMade = 0 /\ tasks = <<>> /\ results = <<>>
  /\ issued = 0 /\ inFlight = 0
  /\ dpc = "idle" /\ poolArray = <<>> /\ lineNo = 0 /\ rollingExclude = <<>>
  /\ nounRows = [i \in 1..LINES |-> Loading]
  /\ exclude = {} /\ chosen = <<>> /\ seen = {} /\ tries = 0
  /\ list = <<>> /\ trims = 0
  /\ setupPc = "pending"

\* lines 90-94: the catch callback
showFailure ==
  /\ nounRows' = [i \in 1..LINES |-> FailedRow]
  /\ status' = setStatusText(LoadFailedStatus)
  /\ statusTimers' = setStatusTimers(LoadFailedStatus)
  /\ consoleErrors' = consoleErrors + 1
  /\ setupPc' = "failed"
  /\ UNCHANGED <<dpc, poolArray, lineNo, rollingExclude, exclude, chosen, seen, tries,
                 list, trims>>

\* lines 88-91: the then callback; its throw is caught by the catch callback
PoolFulfilled ==
  /\ setupPc = "pending"
  /\ bpc = "returned"
  /\ IF insufficient(pool)
     THEN showFailure
     ELSE \* renderAllNounRows(Array.from(pool)) starts
          /\ poolArray' = arrayFrom(pool)
          /\ dpc' = "pick"
          /\ seen' = seenFrom({})
          /\ setupPc' = "rendering"
          /\ UNCHANGED <<lineNo, rollingExclude, nounRows, exclude, chosen, tries, list,
                         trims, status, statusTimers, consoleErrors>>
  /\ UNCHANGED <<buildVars, saveVars, extractVars, db, value, focus, timer, lastEdit,
                 store, outbox, inbox, resetsStarted, resetsDone, statusEl, ignored,
                 events>>

\* lines 92-96 after a rejection of the build itself
PoolRejected ==
  /\ setupPc = "pending"
  /\ bpc = "rejected"
  /\ showFailure
  /\ UNCHANGED <<buildVars, saveVars, extractVars, db, value, focus, timer, lastEdit,
                 store, outbox, inbox, resetsStarted, resetsDone, statusEl, ignored,
                 events>>

SetupNext ==
  \/ PoolFulfilled
  \/ PoolRejected
  \/ PickTry /\ UNCHANGED <<buildVars, syncVars, saveVars, extractVars, setupVars>>
  \/ PickReturn /\ UNCHANGED <<buildVars, syncVars, saveVars, extractVars, setupVars>>
  \/ RenderLine /\ UNCHANGED <<buildVars, syncVars, saveVars, extractVars, setupVars>>
  \/ StatusTimeout /\ UNCHANGED <<buildVars, drawVars, saveVars, extractVars, setupVars>>

SetupSpec == SetupInit /\ [][SetupNext]_vars

\* the build has failed or has brought fewer than NOUNS_PER_LINE tokens
buildFell == bpc = "rejected" \/ Cardinality(pool) < NOUNS_PER_LINE

\* C16 Insufficient pool: when the settled build is handled, if it failed or
\* brought fewer than NOUNS_PER_LINE tokens every noun row shows the failure
\* text, the failure status is set (with its timeout) and renderAllNounRows
\* is not started, then or later, nor is the build started again; otherwise
\* renderAllNounRows is started, every row ends up as a list, and neither
\* the failure text nor the failure status is ever shown.
C16_InsufficientPool ==
  [][/\ setupPc = "pending" /\ setupPc' # "pending" =>
          IF buildFell
          THEN /\ setupPc' = "failed"
               /\ statusEl => /\ status' = LoadFailedStatus
                               /\ statusTimers' = Append(statusTimers, LoadFailedStatus)
          ELSE setupPc' = "rendering" /\ dpc' = "pick"
     /\ setupPc' = "failed" =>
          /\ \A i \in 1..LINES : nounRows'[i] = FailedRow
          /\ dpc' = "idle" /\ bpc' = bpc /\ issued' = issued
     /\ setupPc' = "rendering" =>
          /\ \A i \in 1..LINES : nounRows'[i] # FailedRow
          /\ dpc' = "done" => \A i \in 1..LINES : nounRows'[i].kind = "list"
          /\ status' # LoadFailedStatus]_vars

\* the build ended with one token fewer than a line needs: every row shows
\* the failure text and the failure status is up
C16_Witness ==
  /\ bpc = "returned" /\ Cardinality(pool) = NOUNS_PER_LINE - 1
  /\ setupPc = "failed"
  /\ \A i \in 1..LINES : nounRows[i] = FailedRow
  /\ status = LoadFailedStatus
(* ------------------------------------------------------------------ *)
(* The batched update of onReset                                       *)
(* ------------------------------------------------------------------ *)
updatesIn(q) == Cardinality({k \in 1..Len(q) : q[k].op = "update"})

AllPaths == {<<"blanks", i, b>> : i \in 0..(LINES - 1), b \in 0..(BLANKS_PER_LINE - 1)}

\* C17 Reset batch: with a store, a confirmed onReset sends exactly one
\* batched update, its keys are exactly the paths blanks/{i}/{b} of all
\* fields and each entry has value '' and editedBy this client's id; no
\* other step sends a batched update; and the store either leaves every
\* field as it was or sets every field to its entry of the batch.
C17_ResetBatch ==
  [][/\ db /\ resetsStarted' > resetsStarted =>
          /\ Len(outbox') = Len(outbox) + 1
          /\ \A k \in 1..Len(outbox) : outbox'[k] = outbox[k]
          /\ LET req == outbox'[Len(outbox')]
             IN /\ req.op = "update"
                /\ DOMAIN req.data = AllPaths
                /\ \A q \in AllPaths : req.data[q] = [value |-> "", editedBy |-> clientId]
     /\ Len(outbox') > Len(outbox) /\ updatesIn(outbox') > updatesIn(outbox) =>
          resetsStarted' = resetsStarted + 1
     /\ batchStep =>
          \/ store' = store
          \/ \A f \in Fields : store'[f] = Head(outbox).data[<<"blanks", f[1], f[2]>>]]_vars

\* this client's reset has been committed by the store and has run to its
\* end: every field of the store holds '' written by this client
C17_Witness ==
  /\ db /\ resetsStarted = 1 /\ resetsDone = 1
  /\ status = "All blanks reset."
  /\ \A f \in Fields : store[f] = record("", clientId)
  /\ outbox = <<>> /\ inbox = <<>>
(* ------------------------------------------------------------------ *)
(* The trim of the rolling exclusion set (lines 202-204)               *)
(* ------------------------------------------------------------------ *)
\* this step is renderAllNounRows finishing a line
renderStep == dpc = "picked" /\ lineNo' = lineNo + 1

\* C18 Exclusion trim: when a line's tokens have been added to the rolling
\* exclusion set, the set is trimmed if and only if it holds more than
\* EXCLUDE_CAP entries; the trim removes exactly the EXCLUDE_TRIM oldest
\* entries and keeps all newer ones in their order; so the set handed to
\* the next call of pickUniqueRandom never holds more than EXCLUDE_CAP.
C18_ExclusionTrim ==
  [][renderStep =>
       LET added == rollingExclude \o list
       IN /\ IF Len(added) > EXCLUDE_CAP
             THEN /\ Len(rollingExclude') = Len(added) - EXCLUDE_TRIM
                  /\ \A k \in 1..Len(rollingExclude') :
                       rollingExclude'[k] = added[k + EXCLUDE_TRIM]
                  /\ trims' = trims + 1
             ELSE rollingExclude' = added /\ trims' = trims
          /\ dpc' = "pick" =>
               /\ Len(rollingExclude') <= EXCLUDE_CAP
               /\ exclude' = Range(rollingExclude')]_vars

\* two full lines have been rendered and the set was trimmed once: the
\* first line's tokens are gone from it and the second line's are all kept
C18_Witness ==
  /\ dpc = "pick" /\ lineNo = 2 /\ trims = 1
  /\ Len(nounRows[1].list) = NOUNS_PER_LINE
  /\ rollingExclude = nounRows[2].list
  /\ Len(rollingExclude) = NOUNS_PER_LINE
(* ------------------------------------------------------------------ *)
(* Convergence                                                         *)
(* ------------------------------------------------------------------ *)
\* what a field shows when it shows the store's value
shown(rec) == IF rec = Absent THEN "" ELSE orEmpty(rec.value)

\* a working store and nothing under way: no request was refused, no
\* debounce timeout is pending, no request is in flight, every notification
\* has been handled and no field holds the focus
quiescent ==
  /\ db /\ consoleErrors = 0
  /\ \A f \in Fields : ~timer[f]
  /\ outbox = <<>> /\ inbox = <<>>
  /\ focus = NoField

\* C19 as stated: at quiescence this client shows for every field the value
\* the store holds for it.
C19_Convergence == quiescent => \A f \in Fields : value[f] = shown(store[f])

\* C19 as amended: at quiescence this client shows the store's value for
\* every field but those whose latest notification came while the field
\* held the focus and carried another value than the field showed.
C19_ConvergenceUnlessIgnored ==
  quiescent => \A f \in Fields \ ignored : value[f] = shown(store[f])

\* at quiescence after a field was typed into and left: the store holds
\* what this client wrote and the field shows it
C19_Witness ==
  /\ quiescent /\ ignored = {} /\ events = 3
  /\ \E f \in Fields : store[f] = record("a", clientId) /\ value[f] = "a"
(* ------------------------------------------------------------------ *)
(* The size of the pool                                                *)
(* ------------------------------------------------------------------ *)
\* C20 Pool size bound: while buildWikipediaNounPool runs and when it has
\* returned the pool holds at most targetSize tokens, however many tokens a
\* document or a batch brings, and requestsMade is at most MAX_REQUESTS.
C20_PoolSizeBound ==
  /\ Cardinality(pool) <= targetSize
  /\ requestsMade <= MAX_REQUESTS

\* the build has returned with a full pool although the last batch brought
\* a token that is not in it
C20_Witness ==
  /\ bpc = "returned"
  /\ Cardinality(pool) = targetSize
  /\ ~(batchTokens(results) \subseteq pool)
====
